---- MODULE Spec2Model ----
(***************************************************************************)
(* CustomMemoryResource (include/allocator.h) and SingleLinkedList<T>      *)
(* (include/list.h) as a state machine.                                    *)
(*                                                                         *)
(* Addresses are the integers 1..MaxAddr; 0 is nullptr.  The upstream      *)
(* allocator (std::pmr::new_delete_resource) hands out any address that is *)
(* not outstanding, or throws bad_alloc: every operation takes the         *)
(* upstream's answers as an input `ups`, a sequence of distinct addresses  *)
(* that are not outstanding; an upstream call takes the next one, and      *)
(* throws when none is left.                                               *)
(*                                                                         *)
(* The operations are state transformers on a record M that holds the      *)
(* program state together with the call in progress (its remaining         *)
(* upstream answers, the diagnostics the resource printed, the exception   *)
(* in flight and its return value).  An action applies one public          *)
(* operation to the current state and commits the result.                  *)
(*                                                                         *)
(* SpecRes is a client calling allocate/deallocate on one resource and     *)
(* destroying it.  Spec is two list objects over two resources, under      *)
(* every public list operation; the resources outlive the lists (the       *)
(* lifetime contract of a polymorphic_allocator), and a cursor is handed   *)
(* only to the list it was taken from and only while its node is linked.   *)
(* SpecCopy is the same two lists built by push_front and pop_front and    *)
(* copied, moved and assigned as wholes, with one more address for the     *)
(* upstream to hand out, so that lists of two elements are copied.         *)
(* SpecOne is the two lists bound to one resource, under every public     *)
(* list operation.                                                         *)
(* An exception that leaves a noexcept function ends the program.          *)
(*                                                                         *)
(* A property of an operation is stated as an invariant: in every          *)
(* reachable state, for every input the action draws, the operation        *)
(* applied to that state has the stated outcome.                           *)
(***************************************************************************)
EXTENDS Integers, Sequences, FiniteSets, TLC

\* ---------------------------------------------------------------- bounds
MaxAddr == 4        \* addresses are 1..MaxAddr
MaxHeap == 3        \* the upstream hands out 1..MaxHeap, and all of 1..MaxAddr
                    \* where whole lists are copied (SpecCopy)
MaxBytes == 2       \* a client asks for 1..MaxBytes bytes
MaxAlignExp == 1    \* with an alignment of 2^0 .. 2^MaxAlignExp
MaxValue == 2       \* list elements are 1..MaxValue

Addr == 1..MaxAddr
nullptr == 0
Resources == {"R1", "R2"}
Sizes == 1..MaxBytes
RECURSIVE Pow2(_)
Pow2(k) == IF k = 0 THEN 1 ELSE 2 * Pow2(k - 1)
Aligns == {Pow2(k) : k \in 0..MaxAlignExp}
Values == 1..MaxValue
ListIds == {"A", "B"}
Slots == ListIds \cup {"temp"}

\* sizeof(Node) and alignof(Node) for T = int on an LP64 target
NodeBytes == 16
NodeAlign == 8

VARIABLES
    allocated_blocks,  \* per resource: the std::map from address to BlockInfo
    alive,             \* per resource: constructed and not yet destroyed
    upstream_out,      \* the addresses the upstream allocator has outstanding
    obtained,          \* per resource and address: upstream allocate calls
    returned,          \* per resource and address: upstream deallocate calls
    original,          \* per resource and address: (bytes, alignment) asked upstream
    released,          \* per resource: addresses reported freed and not handed out since
    node,              \* the Node object constructed at each address
    lists,             \* per list object: head, list_size, alloc
    terminated         \* std::terminate was called: the program is gone

vars == <<allocated_blocks, alive, upstream_out, obtained, returned, original,
          released, node, lists, terminated>>

\* ------------------------------------------------------- CustomMemoryResource
\* A key absent from the std::map
NoBlock == [tracked |-> FALSE, size |-> 0, alignment |-> 0, active |-> FALSE]

BlockInfo(s, a) == [tracked |-> TRUE, size |-> s, alignment |-> a, active |-> TRUE]

\* block_fits without its test of the active flag
block_fits_ignores_active(info, bytes, alignment) ==
    info.size >= bytes /\ info.alignment >= alignment

\* block_fits without its alignment test
block_fits_no_alignment(info, bytes, alignment) ==
    ~info.active /\ info.size >= bytes

block_fits(info, bytes, alignment) ==
    ~info.active /\ info.size >= bytes /\ info.alignment >= alignment

\* find_block scanning the map from its highest key down
RECURSIVE find_block_descending(_, _, _, _)
find_block_descending(blocks, p, bytes, alignment) ==
    LET q == MaxAddr + 1 - p IN
    IF p > MaxAddr THEN nullptr
    ELSE IF blocks[q].tracked /\ block_fits(blocks[q], bytes, alignment) THEN q
    ELSE find_block_descending(blocks, p + 1, bytes, alignment)

\* The for loop of do_allocate: std::map iterates in ascending key order, from
\* key p on; nullptr when the loop ends without a return
RECURSIVE find_block(_, _, _, _)
find_block(blocks, p, bytes, alignment) ==
    IF p > MaxAddr THEN nullptr
    ELSE IF blocks[p].tracked /\ block_fits(blocks[p], bytes, alignment) THEN p
    ELSE find_block(blocks, p + 1, bytes, alignment)

\* std::map::emplace: inserts only when the key is absent
emplace(blocks, ptr, info) ==
    IF blocks[ptr].tracked THEN blocks ELSE [blocks EXCEPT ![ptr] = info]

\* One line of the resource's std::cout diagnostics (msg), or the exception
\* the call threw instead (err)
Logged(M, fn, r, ptr, bytes, alignment, msg) ==
    Append(M.log, [fn |-> fn, res |-> r, ptr |-> ptr, bytes |-> bytes,
                   alignment |-> alignment, msg |-> msg])

\* parent_allocator->allocate(bytes, alignment)
upstream_allocate(M) ==
    IF M.ups = <<>> THEN [M EXCEPT !.err = "bad_alloc", !.ret = nullptr]
    ELSE [M EXCEPT !.upstream_out = @ \cup {Head(M.ups)},
                   !.ups = Tail(M.ups),
                   !.ret = Head(M.ups)]

\* do_allocate that records the request's size and alignment in a reused block
do_allocate_resizes(M, r, bytes, alignment) ==
    LET hit == find_block(M.allocated_blocks[r], 1, bytes, alignment) IN
    IF hit # nullptr
    THEN [M EXCEPT !.allocated_blocks[r][hit] = BlockInfo(bytes, alignment),
                   !.ret = hit,
                   !.log = Logged(M, "allocate", r, hit, bytes, alignment, "Reused block")]
    ELSE LET U == upstream_allocate(M) IN
         IF U.err # ""
         THEN [U EXCEPT !.log = Logged(M, "allocate", r, nullptr, bytes, alignment, U.err)]
         ELSE [U EXCEPT !.allocated_blocks[r] = emplace(@, U.ret, BlockInfo(bytes, alignment)),
                        !.obtained[r][U.ret] = @ + 1,
                        !.original[r][U.ret] = [size |-> bytes, alignment |-> alignment],
                        !.log = Logged(M, "allocate", r, U.ret, bytes, alignment,
                                       "Allocated new block")]

do_allocate(M, r, bytes, alignment) ==
    LET hit == find_block(M.allocated_blocks[r], 1, bytes, alignment) IN
    IF hit # nullptr
    THEN [M EXCEPT !.allocated_blocks[r][hit].active = TRUE,
                   !.ret = hit,
                   !.log = Logged(M, "allocate", r, hit, bytes, alignment, "Reused block")]
    ELSE LET U == upstream_allocate(M) IN
         IF U.err # ""
         THEN [U EXCEPT !.log = Logged(M, "allocate", r, nullptr, bytes, alignment, U.err)]
         ELSE [U EXCEPT !.allocated_blocks[r] = emplace(@, U.ret, BlockInfo(bytes, alignment)),
                        !.obtained[r][U.ret] = @ + 1,
                        !.original[r][U.ret] = [size |-> bytes, alignment |-> alignment],
                        !.log = Logged(M, "allocate", r, U.ret, bytes, alignment,
                                       "Allocated new block")]

\* do_deallocate without the double free test: the flag is flipped
do_deallocate_toggles(M, r, ptr, bytes, alignment) ==
    LET info == M.allocated_blocks[r][ptr] IN
    IF ~info.tracked
    THEN [M EXCEPT !.log = Logged(M, "deallocate", r, ptr, bytes, alignment,
                                  "Unknown pointer deallocated")]
    ELSE [M EXCEPT !.allocated_blocks[r][ptr].active = ~info.active,
                   !.log = Logged(M, "deallocate", r, ptr, bytes, alignment,
                                  "Deallocated block")]

\* do_deallocate looking the block up with operator[], which inserts a missing key
do_deallocate_inserts(M, r, ptr, bytes, alignment) ==
    LET info == M.allocated_blocks[r][ptr] IN
    IF info.tracked /\ ~info.active
    THEN [M EXCEPT !.err = "logic_error",
                   !.log = Logged(M, "deallocate", r, ptr, bytes, alignment,
                                  "logic_error")]
    ELSE [M EXCEPT !.allocated_blocks[r][ptr] =
                        [tracked |-> TRUE, size |-> info.size,
                         alignment |-> info.alignment, active |-> FALSE],
                   !.log = Logged(M, "deallocate", r, ptr, bytes, alignment,
                                  "Deallocated block")]

do_deallocate(M, r, ptr, bytes, alignment) ==
    LET info == M.allocated_blocks[r][ptr] IN
    IF ~info.tracked
    THEN [M EXCEPT !.log = Logged(M, "deallocate", r, ptr, bytes, alignment,
                                  "Unknown pointer deallocated")]
    ELSE IF ~info.active
    THEN [M EXCEPT !.err = "logic_error",
                   !.log = Logged(M, "deallocate", r, ptr, bytes, alignment,
                                  "logic_error")]
    ELSE [M EXCEPT !.allocated_blocks[r][ptr].active = FALSE,
                   !.log = Logged(M, "deallocate", r, ptr, bytes, alignment,
                                  "Deallocated block")]

allocation_count(blocks) == Cardinality({p \in Addr : blocks[p].tracked})

used_blocks(blocks) == Cardinality({p \in Addr : blocks[p].tracked /\ blocks[p].active})

\* parent_allocator->deallocate(ptr, size, alignment)
upstream_deallocate(M, r, ptr) ==
    [M EXCEPT !.upstream_out = @ \ {ptr},
              !.returned[r][ptr] = @ + 1]

\* release_blocks that skips the blocks still active
RECURSIVE release_blocks_free_only(_, _, _)
release_blocks_free_only(M, r, p) ==
    IF p > MaxAddr THEN M
    ELSE IF M.allocated_blocks[r][p].tracked /\ ~M.allocated_blocks[r][p].active
    THEN release_blocks_free_only(upstream_deallocate(M, r, p), r, p + 1)
    ELSE release_blocks_free_only(M, r, p + 1)

\* The for loop of the destructor, over the map in ascending key order
RECURSIVE release_blocks(_, _, _)
release_blocks(M, r, p) ==
    IF p > MaxAddr THEN M
    ELSE IF M.allocated_blocks[r][p].tracked
    THEN release_blocks(upstream_deallocate(M, r, p), r, p + 1)
    ELSE release_blocks(M, r, p + 1)

\* ~CustomMemoryResource, then the members' destructors (the map is gone)
destroy_resource(M, r) ==
    LET D == release_blocks(M, r, 1) IN
    [D EXCEPT !.allocated_blocks[r] = [p \in Addr |-> NoBlock],
              !.alive[r] = FALSE]

\* ------------------------------------------------------------ the call frame
NoNode == [value |-> 0, next |-> nullptr]
NoList == [live |-> FALSE, head |-> nullptr, list_size |-> 0, alloc |-> "none"]

Program ==
    [allocated_blocks |-> allocated_blocks, alive |-> alive,
     upstream_out |-> upstream_out, obtained |-> obtained,
     returned |-> returned, original |-> original, node |-> node,
     lists |-> lists]

\* The state at the start of a call whose upstream answers are ups
Entry(ups) ==
    [allocated_blocks |-> allocated_blocks, alive |-> alive,
     upstream_out |-> upstream_out, obtained |-> obtained,
     returned |-> returned, original |-> original, node |-> node,
     lists |-> lists,
     ups |-> ups, log |-> <<>>, err |-> "", ret |-> nullptr]

\* The program state a call leaves behind
After(M) ==
    [allocated_blocks |-> M.allocated_blocks, alive |-> M.alive,
     upstream_out |-> M.upstream_out, obtained |-> M.obtained,
     returned |-> M.returned, original |-> M.original, node |-> M.node,
     lists |-> M.lists]

\* The next call made from the state M was left in, with upstream answers ups
Then(M, ups) == [M EXCEPT !.ups = ups, !.log = <<>>, !.err = "", !.ret = nullptr]

\* The addresses the resource reported freed and has not handed out since
RECURSIVE Released(_, _)
Released(rel, log) ==
    IF log = <<>> THEN rel
    ELSE LET e == Head(log) IN
         Released(IF e.msg = "Deallocated block"
                  THEN [rel EXCEPT ![e.res] = @ \cup {e.ptr}]
                  ELSE IF e.msg \in {"Reused block", "Allocated new block"}
                  THEN [rel EXCEPT ![e.res] = @ \ {e.ptr}]
                  ELSE rel,
                  Tail(log))

\* An exception leaving a noexcept function calls std::terminate
noexcept(M) == IF M.err # "" THEN [M EXCEPT !.err = "terminate"] ELSE M

\* The call returns (or throws): its effects become the program state
Commit(M) ==
    /\ ~terminated
    /\ terminated' = (M.err = "terminate")
    /\ allocated_blocks' = M.allocated_blocks
    /\ alive' = M.alive
    /\ upstream_out' = M.upstream_out
    /\ obtained' = M.obtained
    /\ returned' = M.returned
    /\ original' = M.original
    /\ released' = Released(released, M.log)
    /\ node' = M.node
    /\ lists' = M.lists

\* The answers the upstream can give to at most n calls
RECURSIVE UpstreamAnswers(_, _)
UpstreamAnswers(free, n) ==
    IF n = 0 THEN {<<>>}
    ELSE {<<>>} \cup
         UNION {{<<p>> \o s : s \in UpstreamAnswers(free \ {p}, n - 1)} : p \in free}

NoOriginal == [size |-> 0, alignment |-> 0]

Init ==
    /\ allocated_blocks = [r \in Resources |-> [p \in Addr |-> NoBlock]]
    /\ alive = [r \in Resources |-> TRUE]
    /\ upstream_out = {}
    /\ obtained = [r \in Resources |-> [p \in Addr |-> 0]]
    /\ returned = [r \in Resources |-> [p \in Addr |-> 0]]
    /\ original = [r \in Resources |-> [p \in Addr |-> NoOriginal]]
    /\ released = [r \in Resources |-> {}]
    /\ node = [p \in Addr |-> NoNode]
    /\ lists = [l \in Slots |-> NoList]
    /\ terminated = FALSE

Fresh == (1..MaxHeap) \ upstream_out
FreshCopy == Addr \ upstream_out

\* ------------------------------------------- a client of the resource alone
\* memory_resource::allocate(bytes, alignment)
Allocate(r, bytes, alignment, ups) ==
    /\ alive[r]
    /\ Commit(do_allocate(Entry(ups), r, bytes, alignment))

\* memory_resource::deallocate(ptr, bytes, alignment)
Deallocate(r, ptr, bytes, alignment) ==
    /\ alive[r]
    /\ Commit(do_deallocate(Entry(<<>>), r, ptr, bytes, alignment))

Teardown(r) ==
    /\ alive[r]
    /\ Commit(destroy_resource(Entry(<<>>), r))

\* The tests that drive a resource directly construct one local resource each
Clients == {"R1"}

NextRes ==
    \/ \E r \in Clients, bytes \in Sizes, alignment \in Aligns :
         \E ups \in UpstreamAnswers(Fresh, 1) :
            Allocate(r, bytes, alignment, ups)
    \/ \E r \in Clients, ptr \in Addr, bytes \in Sizes, alignment \in Aligns :
         Deallocate(r, ptr, bytes, alignment)
    \/ \E r \in Clients : Teardown(r)

SpecRes == Init /\ [][NextRes]_vars

\* ------------------------------------------------------------ SingleLinkedList
Node(value, next) == [value |-> value, next |-> next]

\* polymorphic_allocator equality: memory_resource::operator==, which is identity
\* for CustomMemoryResource (do_is_equal)
do_is_equal(r, other) == r = other

\* create_node that drops its next argument
create_node_unlinked(M, l, value, next) ==
    LET A == do_allocate(M, M.lists[l].alloc, NodeBytes, NodeAlign) IN
    IF A.err # "" THEN A
    ELSE [A EXCEPT !.node[A.ret] = Node(value, nullptr)]

create_node(M, l, value, next) ==
    LET A == do_allocate(M, M.lists[l].alloc, NodeBytes, NodeAlign) IN
    IF A.err # "" THEN A
    ELSE [A EXCEPT !.node[A.ret] = Node(value, next)]

destroy_node(M, l, n) ==
    IF n = nullptr THEN M
    ELSE do_deallocate([M EXCEPT !.node[n] = NoNode], M.lists[l].alloc, n,
                       NodeBytes, NodeAlign)

RECURSIVE destroy_all(_, _)
destroy_all(M, l) ==
    LET h == M.lists[l].head IN
    IF h = nullptr THEN [M EXCEPT !.lists[l].list_size = 0]
    ELSE LET next == M.node[h].next
             D == destroy_node(M, l, h)
         IN IF D.err # "" THEN D
            ELSE destroy_all([D EXCEPT !.lists[l].head = next], l)

\* The while loop of copy_nodes; current = nullptr stands for &head, an address n
\* for &n->next
RECURSIVE copy_loop(_, _, _, _)
copy_loop(M, l, current, other_node) ==
    IF other_node = nullptr THEN M
    ELSE LET C == create_node(M, l, M.node[other_node].value, nullptr) IN
         IF C.err # "" THEN C
         ELSE LET W == IF current = nullptr
                       THEN [C EXCEPT !.lists[l].head = C.ret]
                       ELSE [C EXCEPT !.node[current].next = C.ret]
                  S == [W EXCEPT !.lists[l].list_size = @ + 1]
              IN copy_loop(S, l, C.ret, S.node[other_node].next)

copy_nodes(M, l, o) == copy_loop(M, l, nullptr, M.lists[o].head)

\* explicit SingleLinkedList(std::pmr::memory_resource* resource)
construct(M, l, r) ==
    [M EXCEPT !.lists[l] = [live |-> TRUE, head |-> nullptr, list_size |-> 0,
                            alloc |-> r]]

\* A copy constructor that takes the other list's nodes instead of copying them
copy_construct_shallow(M, l, o) ==
    [M EXCEPT !.lists[l] = [live |-> TRUE, head |-> M.lists[o].head,
                            list_size |-> M.lists[o].list_size,
                            alloc |-> M.lists[o].alloc]]

\* A constructor that throws leaves no object: its destructor never runs
copy_construct(M, l, o) ==
    LET N == copy_nodes(construct(M, l, M.lists[o].alloc), l, o) IN
    IF N.err # "" THEN [N EXCEPT !.lists[l] = NoList] ELSE N

\* A move constructor that leaves the other list its head and size
move_construct_keeps_source(M, l, o) ==
    [M EXCEPT !.lists[l] = [live |-> TRUE, head |-> M.lists[o].head,
                            list_size |-> M.lists[o].list_size,
                            alloc |-> M.lists[o].alloc]]

move_construct(M, l, o) ==
    [M EXCEPT !.lists[l] = [live |-> TRUE, head |-> M.lists[o].head,
                            list_size |-> M.lists[o].list_size,
                            alloc |-> M.lists[o].alloc],
              !.lists[o].head = nullptr,
              !.lists[o].list_size = 0]

destructor(M, l) ==
    LET D == destroy_all(M, l) IN
    IF D.err # "" THEN noexcept(D) ELSE [D EXCEPT !.lists[l] = NoList]

\* swap that exchanges the heads and forgets list_size
swap_heads_only(M, l, o) ==
    [M EXCEPT !.lists[l].head = M.lists[o].head,
              !.lists[o].head = M.lists[l].head]

swap(M, l, o) ==
    [M EXCEPT !.lists[l].head = M.lists[o].head,
              !.lists[l].list_size = M.lists[o].list_size,
              !.lists[o].head = M.lists[l].head,
              !.lists[o].list_size = M.lists[l].list_size]

copy_assign(M, l, o) ==
    IF l = o THEN M
    ELSE IF do_is_equal(M.lists[l].alloc, M.lists[o].alloc)
    THEN LET D == destroy_all(M, l) IN
         IF D.err # "" THEN D ELSE copy_nodes(D, l, o)
    ELSE LET T == copy_construct(M, "temp", o) IN
         IF T.err # "" THEN T ELSE destructor(swap(T, l, "temp"), "temp")

\* A move assignment that leaves the other list its head and size
move_assign_shares(M, l, o) ==
    IF l = o THEN M
    ELSE LET D == destroy_all(M, l) IN
         IF D.err # "" THEN noexcept(D)
         ELSE IF do_is_equal(M.lists[l].alloc, M.lists[o].alloc)
         THEN [D EXCEPT !.lists[l].head = D.lists[o].head,
                        !.lists[l].list_size = D.lists[o].list_size]
         ELSE noexcept(copy_nodes(D, l, o))

\* A move assignment that takes over the other list's nodes whatever their resource
move_assign_steals(M, l, o) ==
    IF l = o THEN M
    ELSE LET D == destroy_all(M, l) IN
         IF D.err # "" THEN noexcept(D)
         ELSE [D EXCEPT !.lists[l].head = D.lists[o].head,
                        !.lists[l].list_size = D.lists[o].list_size,
                        !.lists[o].head = nullptr,
                        !.lists[o].list_size = 0]

move_assign(M, l, o) ==
    IF l = o THEN M
    ELSE LET D == destroy_all(M, l) IN
         IF D.err # "" THEN noexcept(D)
         ELSE IF do_is_equal(M.lists[l].alloc, M.lists[o].alloc)
         THEN [D EXCEPT !.lists[l].head = D.lists[o].head,
                        !.lists[l].list_size = D.lists[o].list_size,
                        !.lists[o].head = nullptr,
                        !.lists[o].list_size = 0]
         ELSE noexcept(copy_nodes(D, l, o))

front(M, l) ==
    IF M.lists[l].head = nullptr THEN [M EXCEPT !.err = "logic_error"]
    ELSE [M EXCEPT !.ret = M.node[M.lists[l].head].value]

push_front(M, l, value) ==
    LET C == create_node(M, l, value, M.lists[l].head) IN
    IF C.err # "" THEN C
    ELSE [C EXCEPT !.lists[l].head = C.ret,
                   !.lists[l].list_size = @ + 1,
                   !.ret = nullptr]

\* pop_front without --list_size
pop_front_keeps_size(M, l) ==
    LET old == M.lists[l].head IN
    IF old = nullptr THEN [M EXCEPT !.err = "logic_error"]
    ELSE destroy_node([M EXCEPT !.lists[l].head = M.node[old].next], l, old)

\* pop_front that returns silently on an empty list
pop_front_unchecked(M, l) ==
    LET old == M.lists[l].head IN
    IF old = nullptr THEN M
    ELSE LET D == destroy_node([M EXCEPT !.lists[l].head = M.node[old].next], l, old) IN
         IF D.err # "" THEN D
         ELSE [D EXCEPT !.lists[l].list_size = @ - 1]

pop_front(M, l) ==
    LET old == M.lists[l].head IN
    IF old = nullptr THEN [M EXCEPT !.err = "logic_error"]
    ELSE LET D == destroy_node([M EXCEPT !.lists[l].head = M.node[old].next], l, old) IN
         IF D.err # "" THEN D
         ELSE [D EXCEPT !.lists[l].list_size = @ - 1]

\* Iterators hold a Node*; before_begin() and end() both hold nullptr
before_begin(L) == nullptr
begin(L) == L.head
end(L) == nullptr

\* Iterator::operator++, k times
RECURSIVE advance(_, _, _)
advance(nodes, current, k) ==
    IF k = 0 THEN current
    ELSE advance(nodes, IF current # nullptr THEN nodes[current].next ELSE current,
                 k - 1)

\* insert_after whose new node ends the chain instead of pointing at pos's successor
insert_after_drops_tail(M, l, pos, value) ==
    IF pos = nullptr
    THEN LET P == push_front(M, l, value) IN
         IF P.err # "" THEN P ELSE [P EXCEPT !.ret = P.lists[l].head]
    ELSE LET C == create_node(M, l, value, nullptr) IN
         IF C.err # "" THEN C
         ELSE [C EXCEPT !.node[pos].next = C.ret,
                        !.lists[l].list_size = @ + 1]

insert_after(M, l, pos, value) ==
    IF pos = nullptr
    THEN LET P == push_front(M, l, value) IN
         IF P.err # "" THEN P ELSE [P EXCEPT !.ret = P.lists[l].head]
    ELSE IF ~(pos # nullptr) THEN [M EXCEPT !.err = "logic_error"]
    ELSE LET C == create_node(M, l, value, M.node[pos].next) IN
         IF C.err # "" THEN C
         ELSE [C EXCEPT !.node[pos].next = C.ret,
                        !.lists[l].list_size = @ + 1]

erase_after(M, l, pos) ==
    IF pos = nullptr \/ M.node[pos].next = nullptr
    THEN [M EXCEPT !.err = "logic_error"]
    ELSE LET to_delete == M.node[pos].next
             U == [M EXCEPT !.node[pos].next = M.node[to_delete].next]
             D == destroy_node(U, l, to_delete)
         IN IF D.err # "" THEN D
            ELSE [D EXCEPT !.lists[l].list_size = @ - 1,
                           !.ret = D.node[pos].next]

clear(M, l) == destroy_all(M, l)

empty(L) == L.list_size = 0
size(L) == L.list_size

\* The nodes a traversal from h visits (for (it = begin(); it != end(); ++it)),
\* cut after fuel steps
RECURSIVE Chain(_, _, _)
Chain(nodes, h, fuel) ==
    IF h = nullptr \/ fuel = 0 THEN <<>>
    ELSE <<h>> \o Chain(nodes, nodes[h].next, fuel - 1)

NodesOf(P, l) == Chain(P.node, P.lists[l].head, MaxAddr + 1)

\* The values the traversal yields (operator*)
Elements(P, l) == [i \in 1..Len(NodesOf(P, l)) |-> P.node[NodesOf(P, l)[i]].value]

\* The cursors a caller can hold on list l: before_begin(), end(), and begin()
\* advanced to one of its nodes
Cursors(l) ==
    {[via |-> "before_begin", steps |-> 0, current |-> before_begin(lists[l])],
     [via |-> "end", steps |-> 0, current |-> end(lists[l])]}
    \cup {[via |-> "begin", steps |-> k,
           current |-> advance(node, begin(lists[l]), k)] :
             k \in {0} \cup (0..(lists[l].list_size - 1))}

\* ------------------------------------------------------ the list operations
Live(l) == lists[l].live

Construct(l, r) ==
    /\ ~Live(l) /\ alive[r]
    /\ Commit(construct(Entry(<<>>), l, r))

CopyConstruct(l, o, ups) ==
    /\ ~Live(l) /\ Live(o)
    /\ Commit(copy_construct(Entry(ups), l, o))

MoveConstruct(l, o) ==
    /\ ~Live(l) /\ Live(o)
    /\ Commit(move_construct(Entry(<<>>), l, o))

Destructor(l) ==
    /\ Live(l)
    /\ Commit(destructor(Entry(<<>>), l))

CopyAssign(l, o, ups) ==
    /\ Live(l) /\ Live(o)
    /\ Commit(copy_assign(Entry(ups), l, o))

MoveAssign(l, o, ups) ==
    /\ Live(l) /\ Live(o)
    /\ Commit(move_assign(Entry(ups), l, o))

Swap(l, o) ==
    /\ Live(l) /\ Live(o)
    /\ Commit(swap(Entry(<<>>), l, o))

Front(l) ==
    /\ Live(l)
    /\ Commit(front(Entry(<<>>), l))

PushFront(l, value, ups) ==
    /\ Live(l)
    /\ Commit(push_front(Entry(ups), l, value))

PopFront(l) ==
    /\ Live(l)
    /\ Commit(pop_front(Entry(<<>>), l))

InsertAfter(l, pos, value, ups) ==
    /\ Live(l)
    /\ Commit(insert_after(Entry(ups), l, pos.current, value))

EraseAfter(l, pos) ==
    /\ Live(l)
    /\ Commit(erase_after(Entry(<<>>), l, pos.current))

Clear(l) ==
    /\ Live(l)
    /\ Commit(clear(Entry(<<>>), l))

Next ==
    \/ \E l \in ListIds, r \in Resources : Construct(l, r)
    \/ \E l \in ListIds, o \in ListIds :
         \E ups \in UpstreamAnswers(Fresh, lists[o].list_size) : CopyConstruct(l, o, ups)
    \/ \E l \in ListIds, o \in ListIds : MoveConstruct(l, o)
    \/ \E l \in ListIds : Destructor(l)
    \/ \E l \in ListIds, o \in ListIds :
         \E ups \in UpstreamAnswers(Fresh, lists[o].list_size) : CopyAssign(l, o, ups)
    \/ \E l \in ListIds, o \in ListIds :
         \E ups \in UpstreamAnswers(Fresh, lists[o].list_size) : MoveAssign(l, o, ups)
    \/ \E l \in ListIds, o \in ListIds : Swap(l, o)
    \/ \E l \in ListIds : Front(l)
    \/ \E l \in ListIds, value \in Values :
         \E ups \in UpstreamAnswers(Fresh, 1) : PushFront(l, value, ups)
    \/ \E l \in ListIds : PopFront(l)
    \/ \E l \in ListIds, value \in Values :
         \E pos \in Cursors(l), ups \in UpstreamAnswers(Fresh, 1) :
            InsertAfter(l, pos, value, ups)
    \/ \E l \in ListIds : \E pos \in Cursors(l) : EraseAfter(l, pos)
    \/ \E l \in ListIds : Clear(l)

Spec == Init /\ [][Next]_vars

\* The lists built by push_front and pop_front and copied, moved and assigned
\* as wholes, the upstream having all of Addr to hand out
NextCopy ==
    \/ \E l \in ListIds, r \in Resources : Construct(l, r)
    \/ \E l \in ListIds, o \in ListIds :
         \E ups \in UpstreamAnswers(FreshCopy, lists[o].list_size) :
            CopyConstruct(l, o, ups)
    \/ \E l \in ListIds, o \in ListIds : MoveConstruct(l, o)
    \/ \E l \in ListIds : Destructor(l)
    \/ \E l \in ListIds, o \in ListIds :
         \E ups \in UpstreamAnswers(FreshCopy, lists[o].list_size) :
            CopyAssign(l, o, ups)
    \/ \E l \in ListIds, o \in ListIds :
         \E ups \in UpstreamAnswers(FreshCopy, lists[o].list_size) :
            MoveAssign(l, o, ups)
    \/ \E l \in ListIds, value \in Values :
         \E ups \in UpstreamAnswers(FreshCopy, 1) : PushFront(l, value, ups)
    \/ \E l \in ListIds : PopFront(l)

SpecCopy == Init /\ [][NextCopy]_vars

\* Every list bound to the one resource of Clients, under every public list
\* operation, the upstream having all of Addr to hand out
NextOne ==
    \/ \E l \in ListIds, r \in Clients : Construct(l, r)
    \/ \E l \in ListIds, o \in ListIds :
         \E ups \in UpstreamAnswers(FreshCopy, lists[o].list_size) : CopyConstruct(l, o, ups)
    \/ \E l \in ListIds, o \in ListIds : MoveConstruct(l, o)
    \/ \E l \in ListIds : Destructor(l)
    \/ \E l \in ListIds, o \in ListIds :
         \E ups \in UpstreamAnswers(FreshCopy, lists[o].list_size) : CopyAssign(l, o, ups)
    \/ \E l \in ListIds, o \in ListIds :
         \E ups \in UpstreamAnswers(FreshCopy, lists[o].list_size) : MoveAssign(l, o, ups)
    \/ \E l \in ListIds, o \in ListIds : Swap(l, o)
    \/ \E l \in ListIds : Front(l)
    \/ \E l \in ListIds, value \in Values :
         \E ups \in UpstreamAnswers(FreshCopy, 1) : PushFront(l, value, ups)
    \/ \E l \in ListIds : PopFront(l)
    \/ \E l \in ListIds, value \in Values :
         \E pos \in Cursors(l), ups \in UpstreamAnswers(FreshCopy, 1) :
            InsertAfter(l, pos, value, ups)
    \/ \E l \in ListIds : \E pos \in Cursors(l) : EraseAfter(l, pos)
    \/ \E l \in ListIds : Clear(l)

SpecOne == Init /\ [][NextOne]_vars

\* ==================================================================== claims
\* The tracked free blocks of resource r that satisfy a request
Qualifying(r, bytes, alignment) ==
    {p \in Addr : /\ allocated_blocks[r][p].tracked
                  /\ ~allocated_blocks[r][p].active
                  /\ allocated_blocks[r][p].size >= bytes
                  /\ allocated_blocks[r][p].alignment >= alignment}

\* C1: allocate(bytes, alignment) is first-fit by ascending address: when some
\* tracked block is free with recorded size >= bytes and recorded alignment >=
\* alignment, it returns the lowest-address such block, marks it active and
\* registers nothing new (no upstream call); when none qualifies and the upstream
\* answers, the upstream's block is registered as an active block of exactly
\* (bytes, alignment) and its address is returned.
C1_FirstFit ==
    \A r \in Resources, bytes \in Sizes, alignment \in Aligns :
      \A ups \in UpstreamAnswers(Fresh, 1) :
        alive[r] =>
          LET M == do_allocate(Entry(ups), r, bytes, alignment)
              fit == Qualifying(r, bytes, alignment)
          IN IF fit # {}
             THEN /\ M.err = ""
                  /\ M.ret \in fit
                  /\ \A q \in fit : M.ret <= q
                  /\ M.allocated_blocks =
                       [allocated_blocks EXCEPT ![r][M.ret].active = TRUE]
                  /\ M.upstream_out = upstream_out
                  /\ M.obtained = obtained
             ELSE ups # <<>> =>
                  /\ M.err = ""
                  /\ M.ret = Head(ups)
                  /\ M.allocated_blocks =
                       [allocated_blocks EXCEPT ![r][Head(ups)] =
                          [tracked |-> TRUE, size |-> bytes,
                           alignment |-> alignment, active |-> TRUE]]
                  /\ M.upstream_out = upstream_out \cup {Head(ups)}
                  /\ M.obtained = [obtained EXCEPT ![r][Head(ups)] = @ + 1]

\* C1 witness: a request that two free blocks satisfy, answered with one of
\* them; and a request that none of the free blocks satisfies, answered with a
\* new block.
C1_Witness ==
    /\ \E r \in Resources, bytes \in Sizes, alignment \in Aligns :
         LET fit == Qualifying(r, bytes, alignment) IN
         /\ alive[r]
         /\ Cardinality(fit) >= 2
         /\ do_allocate(Entry(<<>>), r, bytes, alignment).ret \in fit
    /\ \E r \in Resources, bytes \in Sizes, alignment \in Aligns :
         \E p \in Fresh :
            /\ alive[r]
            /\ Qualifying(r, bytes, alignment) = {}
            /\ \E q \in Addr : /\ allocated_blocks[r][q].tracked
                               /\ ~allocated_blocks[r][q].active
            /\ do_allocate(Entry(<<p>>), r, bytes, alignment).ret = p

\* C2: once a tracked, active block X has been deallocated (and not handed out
\* since), an allocate asking for at most X's original size and alignment, at a
\* time when no free block at a lower address qualifies, returns X.
C2_ReuseAfterFree ==
    \A r \in Resources : \A X \in released[r] :
      \A bytes \in Sizes, alignment \in Aligns :
        \A ups \in UpstreamAnswers(Fresh, 1) :
          ( /\ alive[r]
            /\ bytes <= original[r][X].size
            /\ alignment <= original[r][X].alignment
            /\ \A q \in Qualifying(r, bytes, alignment) : q >= X )
          => LET M == do_allocate(Entry(ups), r, bytes, alignment) IN
             M.err = "" /\ M.ret = X

\* C2 witness: a released block X that a smaller request reuses although a
\* free block lies above it and a busy one below it.
C2_Witness ==
    \E r \in Resources : \E X \in released[r] :
      \E bytes \in Sizes, alignment \in Aligns :
        /\ alive[r]
        /\ bytes < original[r][X].size
        /\ alignment < original[r][X].alignment
        /\ \E q \in released[r] : q > X /\ q \in Qualifying(r, bytes, alignment)
        /\ \E q \in Addr : q < X /\ allocated_blocks[r][q].active
        /\ do_allocate(Entry(<<>>), r, bytes, alignment).ret = X

\* C3: deallocate of a tracked block that is already free throws logic_error
\* and changes nothing: the registry, the upstream and every list are as before,
\* so later calls behave as if the failed call had not happened.
C3_DoubleFree ==
    \A r \in Resources, ptr \in Addr, bytes \in Sizes, alignment \in Aligns :
      ( /\ alive[r]
        /\ allocated_blocks[r][ptr].tracked
        /\ ~allocated_blocks[r][ptr].active )
      => LET M == do_deallocate(Entry(<<>>), r, ptr, bytes, alignment) IN
         /\ M.err = "logic_error"
         /\ After(M) = Program
         /\ Released(released, M.log) = released

\* C3 witness: a block that has been freed, beside a block still in use, in a
\* resource where the second deallocate throws.
C3_Witness ==
    \E r \in Resources : \E ptr \in released[r], q \in Addr :
      /\ alive[r]
      /\ ~allocated_blocks[r][ptr].active
      /\ allocated_blocks[r][q].active
      /\ do_deallocate(Entry(<<>>), r, ptr, 1, 1).err = "logic_error"

\* C4: deallocate of an address the resource does not track never throws and
\* changes nothing: no block is added, removed or has its active flag changed.
C4_UnknownPointer ==
    \A r \in Resources, ptr \in Addr, bytes \in Sizes, alignment \in Aligns :
      (alive[r] /\ ~allocated_blocks[r][ptr].tracked)
      => LET M == do_deallocate(Entry(<<>>), r, ptr, bytes, alignment) IN
         /\ M.err = ""
         /\ After(M) = Program
         /\ Released(released, M.log) = released

\* C4 witness: a resource that tracks a busy and a free block is handed an
\* address it does not track.
C4_Witness ==
    \E r \in Resources, ptr \in Addr, p \in Addr, q \in Addr :
      /\ alive[r]
      /\ ~allocated_blocks[r][ptr].tracked
      /\ allocated_blocks[r][p].tracked /\ allocated_blocks[r][p].active
      /\ allocated_blocks[r][q].tracked /\ ~allocated_blocks[r][q].active
      /\ do_deallocate(Entry(<<>>), r, ptr, 1, 1).log[1].msg
           = "Unknown pointer deallocated"

\* C5: while a resource lives, none of the blocks it obtained from the upstream
\* has been returned (a deallocate only marks the block free); once it is torn
\* down, every block it ever obtained, active or free, has been returned to the
\* upstream exactly once.
C5_ReturnedOnceAtTeardown ==
    \A r \in Resources, p \in Addr :
      /\ alive[r] => /\ returned[r][p] = 0
                     /\ obtained[r][p] <= 1
                     /\ obtained[r][p] = 1 => p \in upstream_out
                     /\ obtained[r][p] = 1 <=> allocated_blocks[r][p].tracked
      /\ ~alive[r] => returned[r][p] = obtained[r][p]

\* C5 witness: a torn down resource that held a block still active and a block
\* already freed.
C5_Witness ==
    \E r \in Resources, p \in Addr, q \in Addr :
      /\ ~alive[r]
      /\ obtained[r][p] = 1 /\ p \notin released[r] /\ returned[r][p] = 1
      /\ obtained[r][q] = 1 /\ q \in released[r] /\ returned[r][q] = 1

\* C6: for every list, in every reachable state, size() is the number of nodes
\* a traversal from head visits before it reaches the terminal null link, and
\* empty() holds iff that number is zero.
C6_SizeIsChainLength ==
    \A l \in Slots :
      LET chain == NodesOf(Program, l) IN
      /\ Len(chain) <= MaxAddr
      /\ size(lists[l]) = Len(chain)
      /\ empty(lists[l]) <=> (size(lists[l]) = 0)
      /\ empty(lists[l]) <=> (chain = <<>>)

\* C6 witness: two live lists of different lengths, one of them bound to a
\* resource its nodes did not come from.
C6_Witness ==
    \E l \in ListIds, o \in ListIds :
      /\ lists[l].live /\ lists[o].live
      /\ size(lists[l]) = 2 /\ size(lists[o]) = 1
      /\ ~allocated_blocks[lists[l].alloc][lists[l].head].tracked

\* C7: push_front(v) on a list holding the sequence s makes exactly one
\* allocation, on the list's resource, and leaves the list holding v followed by
\* s with size one larger; two pushes in a row are traversed latest first.
C7_PushFront ==
    \A l \in ListIds, v \in Values :
      \A ups \in UpstreamAnswers(Fresh, 1) :
        lists[l].live =>
          LET M == push_front(Entry(ups), l, v) IN
          M.err = "" =>
            /\ Elements(After(M), l) = <<v>> \o Elements(Program, l)
            /\ size(M.lists[l]) = size(lists[l]) + 1
            /\ Len(M.log) = 1
            /\ M.log[1].fn = "allocate"
            /\ M.log[1].res = lists[l].alloc
            /\ M.log[1].ptr = M.lists[l].head
            /\ \A w \in Values :
                 \A more \in UpstreamAnswers(Addr \ M.upstream_out, 1) :
                   LET N == push_front(Then(M, more), l, w) IN
                   N.err = "" =>
                     Elements(After(N), l) = <<w, v>> \o Elements(Program, l)

\* C7 witness: a list that holds two different values, where a further
\* push_front succeeds.
C7_Witness ==
    \E l \in ListIds, v \in Values :
      /\ lists[l].live
      /\ size(lists[l]) = 2
      /\ Elements(Program, l)[1] # Elements(Program, l)[2]
      /\ \E ups \in UpstreamAnswers(Fresh, 1) :
           LET M == push_front(Entry(ups), l, v) IN
           M.err = "" /\ Len(Elements(After(M), l)) = 3

\* C8: push_front(v) immediately followed by pop_front() leaves the list with
\* the element sequence and the size it had before.
C8_PushThenPop ==
    \A l \in ListIds, v \in Values :
      \A ups \in UpstreamAnswers(Fresh, 1) :
        lists[l].live =>
          LET M == push_front(Entry(ups), l, v) IN
          M.err = "" =>
            LET N == pop_front(Then(M, <<>>), l) IN
            /\ N.err = ""
            /\ Elements(After(N), l) = Elements(Program, l)
            /\ NodesOf(After(N), l) = NodesOf(Program, l)
            /\ size(N.lists[l]) = size(lists[l])

\* C8 witness: a non-empty list on which push_front succeeds and the pop_front
\* that follows succeeds too.
C8_Witness ==
    \E l \in ListIds, v \in Values :
      /\ lists[l].live
      /\ size(lists[l]) >= 1
      /\ \E ups \in UpstreamAnswers(Fresh, 1) :
           LET M == push_front(Entry(ups), l, v) IN
           /\ M.err = ""
           /\ Elements(Program, l)[1] # v
           /\ pop_front(Then(M, <<>>), l).err = ""

\* C9: front() and pop_front() on an empty list, and erase_after(cursor) when
\* the cursor has no node or its node has no successor, throw logic_error and
\* change neither the list nor any resource's registry (no resource call is
\* made).
C9_EmptyContainerViolations ==
    \A l \in ListIds :
      lists[l].live =>
        /\ empty(lists[l]) =>
             /\ front(Entry(<<>>), l).err = "logic_error"
             /\ After(front(Entry(<<>>), l)) = Program
             /\ front(Entry(<<>>), l).log = <<>>
             /\ pop_front(Entry(<<>>), l).err = "logic_error"
             /\ After(pop_front(Entry(<<>>), l)) = Program
             /\ pop_front(Entry(<<>>), l).log = <<>>
        /\ \A pos \in Cursors(l) :
             (pos.current = nullptr \/ node[pos.current].next = nullptr) =>
               /\ erase_after(Entry(<<>>), l, pos.current).err = "logic_error"
               /\ After(erase_after(Entry(<<>>), l, pos.current)) = Program
               /\ erase_after(Entry(<<>>), l, pos.current).log = <<>>

\* C9 witness: an empty list whose resource tracks blocks, beside a list whose
\* last node is the cursor handed to erase_after.
C9_Witness ==
    \E l \in ListIds, o \in ListIds :
      /\ lists[l].live /\ empty(lists[l])
      /\ \E p \in Addr : allocated_blocks[lists[l].alloc][p].tracked
      /\ pop_front(Entry(<<>>), l).err = "logic_error"
      /\ lists[o].live /\ size(lists[o]) = 2
      /\ \E pos \in Cursors(o) :
           /\ pos.current # nullptr
           /\ node[pos.current].next = nullptr
           /\ erase_after(Entry(<<>>), o, pos.current).err = "logic_error"

\* C10: insert_after(cursor, value) with the terminal end() cursor throws
\* logic_error and leaves the list unmodified.
C10_InsertAfterEndFails ==
    \A l \in ListIds, v \in Values :
      \A ups \in UpstreamAnswers(Fresh, 1) :
        lists[l].live =>
          LET M == insert_after(Entry(ups), l, end(lists[l]), v) IN
          /\ M.err = "logic_error"
          /\ After(M) = Program

\* The sequence s with x placed right after its i-th member (i = 0: in front)
InsertAt(s, i, x) == SubSeq(s, 1, i) \o <<x>> \o SubSeq(s, i + 1, Len(s))

\* C11: insert_after(cursor, v) with the before-begin anchor leaves the program
\* in the state push_front(v) leaves it in; with a cursor on a live node n it
\* places v in a new node right after n, every other element and node keeping
\* its place; either way size grows by one and the returned cursor is on the
\* new node.
C11_InsertAfter ==
    \A l \in ListIds, v \in Values :
      \A pos \in Cursors(l), ups \in UpstreamAnswers(Fresh, 1) :
        /\ lists[l].live
        /\ pos.via = "before_begin" \/ (pos.via = "begin" /\ pos.current # nullptr)
        =>
          LET M == insert_after(Entry(ups), l, pos.current, v)
              i == IF pos.via = "before_begin" THEN 0 ELSE pos.steps + 1
          IN
          M.err = "" =>
            /\ pos.via = "before_begin" =>
                  After(M) = After(push_front(Entry(ups), l, v))
            /\ Elements(After(M), l) = InsertAt(Elements(Program, l), i, v)
            /\ NodesOf(After(M), l) = InsertAt(NodesOf(Program, l), i, M.ret)
            /\ M.ret \notin {NodesOf(Program, l)[k] : k \in 1..Len(NodesOf(Program, l))}
            /\ size(M.lists[l]) = size(lists[l]) + 1
            /\ M.ret # nullptr /\ M.node[M.ret].value = v

\* A list of two elements took a different value between them, and a list took
\* a value through the before-begin anchor
C11_Witness ==
    \E l \in ListIds, v \in Values :
      \E pos \in Cursors(l), ups \in UpstreamAnswers(Fresh, 1) :
        /\ lists[l].live /\ pos.via = "begin" /\ pos.steps = 0
        /\ Len(Elements(Program, l)) = 2
        /\ v \notin {Elements(Program, l)[1], Elements(Program, l)[2]}
        /\ LET M == insert_after(Entry(ups), l, pos.current, v) IN
           /\ M.err = ""
           /\ Elements(After(M), l)[2] = v
           /\ Len(Elements(After(M), l)) = 3
        /\ LET B == insert_after(Entry(ups), l, before_begin(lists[l]), v) IN
           B.err = "" /\ Elements(After(B), l)[1] = v

\* The sequence s without its i-th member
RemoveAt(s, i) == SubSeq(s, 1, i - 1) \o SubSeq(s, i + 1, Len(s))

\* Block p is handed out by some resource
ActiveSomewhere(P, p) == \E r \in Resources : P.allocated_blocks[r][p].active

\* erase_after(cursor), the cursor's node having a successor: the successor
\* alone leaves the sequence, size drops by one, one deallocate call for the
\* removed node goes to the list's alloc resource, and the returned cursor is
\* on the cursor's new successor (end() when there is none).
C12_Unlinks ==
    \A l \in ListIds :
      \A pos \in Cursors(l) :
        /\ lists[l].live
        /\ pos.via = "begin" /\ pos.current # nullptr
        /\ node[pos.current].next # nullptr
        =>
          LET M == erase_after(Entry(<<>>), l, pos.current)
              i == pos.steps + 2
              removed == node[pos.current].next
          IN
          /\ M.err = ""
          /\ Elements(After(M), l) = RemoveAt(Elements(Program, l), i)
          /\ NodesOf(After(M), l) = RemoveAt(NodesOf(Program, l), i)
          /\ size(M.lists[l]) = size(lists[l]) - 1
          /\ Len(M.log) = 1
          /\ M.log[1].fn = "deallocate"
          /\ M.log[1].res = lists[l].alloc
          /\ M.log[1].ptr = removed
          /\ M.ret = M.node[pos.current].next
          /\ M.ret = node[removed].next
          /\ (i = Len(NodesOf(Program, l))) = (M.ret = end(M.lists[l]))

\* C12: erase_after(cursor), the cursor's node having a successor, removes
\* exactly that successor, decrements size by one, gives the removed node's
\* block back to the list's resource (the block is free there afterwards), and
\* returns a cursor to the new successor of the cursor's node.
C12_EraseAfter ==
    \A l \in ListIds :
      \A pos \in Cursors(l) :
        /\ lists[l].live
        /\ pos.via = "begin" /\ pos.current # nullptr
        /\ node[pos.current].next # nullptr
        =>
          LET M == erase_after(Entry(<<>>), l, pos.current)
              removed == node[pos.current].next
          IN
          /\ M.err = ""
          /\ NodesOf(After(M), l) = RemoveAt(NodesOf(Program, l), pos.steps + 2)
          /\ size(M.lists[l]) = size(lists[l]) - 1
          /\ M.ret = M.node[pos.current].next
          /\ M.log[1].res = lists[l].alloc
          /\ M.log[1].msg = "Deallocated block"
          /\ ~ActiveSomewhere(After(M), removed)

\* pop_front() called n times in a row
RECURSIVE PopTimes(_, _, _)
PopTimes(M, l, n) ==
    IF n = 0 \/ M.err # "" THEN M ELSE PopTimes(pop_front(M, l), l, n - 1)

\* push_front(value) called n times in a row, the upstream refusing every request
RECURSIVE PushTimes(_, _, _, _)
PushTimes(M, l, value, n) ==
    IF n = 0 \/ M.err # "" THEN M
    ELSE PushTimes(push_front(Then(M, <<>>), l, value), l, value, n - 1)

\* clear() leaves no head and size zero, and the lists and every resource's
\* registry are as size() calls of pop_front() leave them.
C13_ClearAsPops ==
    \A l \in ListIds :
      lists[l].live =>
        LET M == clear(Entry(<<>>), l) IN
        /\ M.err = ""
        /\ M.lists[l].head = nullptr /\ size(M.lists[l]) = 0 /\ empty(M.lists[l])
        /\ After(M) = After(PopTimes(Entry(<<>>), l, size(lists[l])))
        /\ Len(M.log) = size(lists[l])
        /\ \A k \in 1..Len(M.log) :
             /\ M.log[k].fn = "deallocate"
             /\ M.log[k].res = lists[l].alloc
             /\ M.log[k].ptr = NodesOf(Program, l)[k]

\* C13: clear() leaves the list with no head and size zero and deallocates every
\* node it held, as size() calls of pop_front() do; the blocks it freed serve
\* the push_front calls that follow, which need no new block from the upstream.
C13_Clear ==
    \A l \in ListIds, v \in Values :
      lists[l].live =>
        LET M == clear(Entry(<<>>), l)
            held == NodesOf(Program, l)
            N == PushTimes(M, l, v, Len(held))
        IN
        /\ M.err = ""
        /\ M.lists[l].head = nullptr /\ size(M.lists[l]) = 0
        /\ After(M) = After(PopTimes(Entry(<<>>), l, size(lists[l])))
        /\ \A k \in 1..Len(held) : ~ActiveSomewhere(After(M), held[k])
        /\ N.err = ""
        /\ Len(held) > 0 => N.log[1].msg = "Reused block"
        /\ allocation_count(N.allocated_blocks[lists[l].alloc])
             = allocation_count(allocated_blocks[lists[l].alloc])

\* The members of a sequence
Range(s) == {s[k] : k \in 1..Len(s)}

\* What each mutating operation on list l alone makes of the current state
MutationsOf(l) ==
    {push_front(Entry(ups), l, v) : v \in Values, ups \in UpstreamAnswers(FreshCopy, 1)}
    \cup {pop_front(Entry(<<>>), l), clear(Entry(<<>>), l)}
    \cup UNION {{insert_after(Entry(ups), l, pos.current, v) :
                   v \in Values, ups \in UpstreamAnswers(FreshCopy, 1)} :
                pos \in Cursors(l)}
    \cup {erase_after(Entry(<<>>), l, pos.current) : pos \in Cursors(l)}

\* C14: a copy constructor that returns gives the new list the source's element
\* sequence, size and allocator handle in nodes of its own, the source being
\* left as it was; and whenever two lists are alive, no mutating operation on
\* one of them changes the elements or the nodes of the other, so no sequence
\* of such operations on the source changes the copy, nor the other way round.
C14_CopyConstruct ==
    /\ \A l \in ListIds, o \in ListIds :
         \A ups \in UpstreamAnswers(FreshCopy, lists[o].list_size) :
           ~lists[l].live /\ lists[o].live =>
             LET M == copy_construct(Entry(ups), l, o) IN
             M.err = "" =>
               /\ Elements(After(M), l) = Elements(Program, o)
               /\ size(M.lists[l]) = size(lists[o])
               /\ M.lists[l].alloc = lists[o].alloc
               /\ M.lists[o] = lists[o]
               /\ NodesOf(After(M), o) = NodesOf(Program, o)
               /\ Elements(After(M), o) = Elements(Program, o)
               /\ Range(NodesOf(After(M), l)) \cap Range(NodesOf(After(M), o)) = {}
    /\ \A l \in ListIds, o \in ListIds :
         l # o /\ lists[l].live /\ lists[o].live =>
           /\ Range(NodesOf(Program, l)) \cap Range(NodesOf(Program, o)) = {}
           /\ \A M \in MutationsOf(l) :
                /\ M.lists[o] = lists[o]
                /\ NodesOf(After(M), o) = NodesOf(Program, o)
                /\ Elements(After(M), o) = Elements(Program, o)

\* A list of two different values is copied; the source then loses its front
\* element while the copy keeps both, and the copy then takes a value in front
\* while the source keeps what it had
C14_Witness ==
    \E l \in ListIds, o \in ListIds :
      \E ups \in UpstreamAnswers(FreshCopy, lists[o].list_size) :
        /\ ~lists[l].live /\ lists[o].live
        /\ size(lists[o]) = 2
        /\ Elements(Program, o)[1] # Elements(Program, o)[2]
        /\ LET M == copy_construct(Entry(ups), l, o)
               N == pop_front(Then(M, <<>>), o)
               K == push_front(Then(N, <<>>), l, Elements(Program, o)[2])
           IN
           /\ M.err = "" /\ N.err = "" /\ K.err = ""
           /\ Elements(After(M), l) = Elements(Program, o)
           /\ Elements(After(N), l) = Elements(Program, o)
           /\ Elements(After(N), o) = Tail(Elements(Program, o))
           /\ Elements(After(K), o) = Tail(Elements(Program, o))
           /\ Len(Elements(After(K), l)) = 3

\* C15: move construction leaves the source with no head and size 0, gives the
\* new list the source's nodes, element sequence, size and allocator handle,
\* and makes no allocate or deallocate call: every registry is unchanged.
C15_MoveConstruct ==
    \A l \in ListIds, o \in ListIds :
      ~lists[l].live /\ lists[o].live =>
        LET M == move_construct(Entry(<<>>), l, o) IN
        /\ M.err = ""
        /\ M.lists[o].head = nullptr /\ size(M.lists[o]) = 0
        /\ empty(M.lists[o]) /\ Elements(After(M), o) = <<>>
        /\ M.lists[o].live /\ M.lists[o].alloc = lists[o].alloc
        /\ NodesOf(After(M), l) = NodesOf(Program, o)
        /\ Elements(After(M), l) = Elements(Program, o)
        /\ size(M.lists[l]) = size(lists[o])
        /\ M.lists[l].alloc = lists[o].alloc
        /\ M.log = <<>>
        /\ M.allocated_blocks = allocated_blocks
        /\ M.upstream_out = upstream_out
        /\ M.obtained = obtained /\ M.returned = returned

\* A list of two different values is the source of a move construction
C15_Witness ==
    \E l \in ListIds, o \in ListIds :
      /\ ~lists[l].live /\ lists[o].live
      /\ size(lists[o]) = 2
      /\ Elements(Program, o)[1] # Elements(Program, o)[2]
      /\ LET M == move_construct(Entry(<<>>), l, o) IN
         /\ M.err = ""
         /\ Elements(After(M), l) = Elements(Program, o)
         /\ Elements(After(M), o) = <<>>

\* The log entries of the calls that freed a block
Freed(log) ==
    {log[k].ptr : k \in {i \in 1..Len(log) : log[i].msg = "Deallocated block"}}

\* Copy assignment between two lists whose allocator handles name the same
\* resource, when it returns: one deallocate call per node the target held and
\* one allocate call per element of the source go to that resource, the target
\* ends with the source's elements and size in nodes that are not the source's,
\* and the source is unchanged.
C16_SameResourceCopy ==
    \A l \in ListIds, o \in ListIds :
      \A ups \in UpstreamAnswers(FreshCopy, lists[o].list_size) :
        /\ l # o /\ lists[l].live /\ lists[o].live
        /\ do_is_equal(lists[l].alloc, lists[o].alloc)
        =>
          LET M == copy_assign(Entry(ups), l, o)
              held == NodesOf(Program, l)
          IN
          M.err = "" =>
            /\ \A k \in 1..Len(M.log) : M.log[k].res = lists[l].alloc
            /\ \A k \in 1..Len(held) :
                 M.log[k].fn = "deallocate" /\ M.log[k].ptr = held[k]
            /\ Len(M.log) = Len(held) + size(lists[o])
            /\ Elements(After(M), l) = Elements(Program, o)
            /\ size(M.lists[l]) = size(lists[o])
            /\ M.lists[l].alloc = lists[l].alloc
            /\ Range(NodesOf(After(M), l)) \cap Range(NodesOf(After(M), o)) = {}
            /\ \A n \in Range(NodesOf(After(M), l)) :
                 M.allocated_blocks[lists[l].alloc][n].active
            /\ M.lists[o] = lists[o]
            /\ NodesOf(After(M), o) = NodesOf(Program, o)
            /\ Elements(After(M), o) = Elements(Program, o)

\* C16: copy assignment target = source, both allocator handles naming the same
\* resource: every node the target held is deallocated to that resource (the
\* resource reports the block freed), the target ends with the source's element
\* sequence and size in nodes of its own from that resource, and the source is
\* unchanged.
C16_CopyAssignSameResource ==
    \A l \in ListIds, o \in ListIds :
      \A ups \in UpstreamAnswers(FreshCopy, lists[o].list_size) :
        /\ l # o /\ lists[l].live /\ lists[o].live
        /\ do_is_equal(lists[l].alloc, lists[o].alloc)
        =>
          LET M == copy_assign(Entry(ups), l, o) IN
          M.err = "" =>
            /\ Range(NodesOf(Program, l)) \subseteq Freed(M.log)
            /\ Elements(After(M), l) = Elements(Program, o)
            /\ size(M.lists[l]) = size(lists[o])
            /\ Range(NodesOf(After(M), l)) \cap Range(NodesOf(After(M), o)) = {}
            /\ \A n \in Range(NodesOf(After(M), l)) :
                 M.allocated_blocks[lists[l].alloc][n].active
            /\ M.lists[o] = lists[o]
            /\ Elements(After(M), o) = Elements(Program, o)

\* Copy assignment between lists whose allocator handles name different
\* resources, when it returns: the target has the source's element sequence in
\* nodes allocated from the source's resource, keeps its own allocator handle,
\* and the nodes it held went to the source's resource's deallocate.
C17_CopyAndSwap ==
    \A l \in ListIds, o \in ListIds :
      \A ups \in UpstreamAnswers(FreshCopy, lists[o].list_size) :
        /\ l # o /\ lists[l].live /\ lists[o].live
        /\ ~do_is_equal(lists[l].alloc, lists[o].alloc)
        =>
          LET M == copy_assign(Entry(ups), l, o) IN
          M.err = "" =>
            /\ Elements(After(M), l) = Elements(Program, o)
            /\ size(M.lists[l]) = size(lists[o])
            /\ M.lists[l].alloc = lists[l].alloc
            /\ \A k \in 1..Len(M.log) : M.log[k].res = lists[o].alloc
            /\ \A n \in Range(NodesOf(After(M), l)) :
                 M.allocated_blocks[lists[o].alloc][n].active
            /\ ~M.lists["temp"].live

\* C17: cross-resource copy assignment A = B, A bound to R1 and B to R2 # R1,
\* yields A with B's element sequence and A bound to R2 from then on: A's
\* handle is equal to R2 and not to R1, and A's next allocation goes to R2.
C17_CrossResourceRebinds ==
    \A l \in ListIds, o \in ListIds :
      \A ups \in UpstreamAnswers(FreshCopy, lists[o].list_size) :
        /\ l # o /\ lists[l].live /\ lists[o].live
        /\ ~do_is_equal(lists[l].alloc, lists[o].alloc)
        =>
          LET M == copy_assign(Entry(ups), l, o) IN
          M.err = "" =>
            /\ Elements(After(M), l) = Elements(Program, o)
            /\ do_is_equal(M.lists[l].alloc, lists[o].alloc)
            /\ ~do_is_equal(M.lists[l].alloc, lists[l].alloc)
            /\ \A v \in Values :
                 \A more \in UpstreamAnswers(Addr \ M.upstream_out, 1) :
                   LET N == push_front(Then(M, more), l, v) IN
                   N.err = "" => N.log[1].res = lists[o].alloc

\* Move assignment between two lists whose allocator handles name the same
\* resource: one deallocate call per node the target held goes to that
\* resource and no allocate call is made, the target takes over the source's
\* nodes, and the source is left with no head and size 0.
C18_TakesOver ==
    \A l \in ListIds, o \in ListIds :
      /\ l # o /\ lists[l].live /\ lists[o].live
      /\ do_is_equal(lists[l].alloc, lists[o].alloc)
      =>
        LET M == move_assign(Entry(<<>>), l, o)
            held == NodesOf(Program, l)
        IN
        /\ M.err = ""
        /\ Len(M.log) = Len(held)
        /\ \A k \in 1..Len(held) :
             /\ M.log[k].fn = "deallocate"
             /\ M.log[k].res = lists[l].alloc
             /\ M.log[k].ptr = held[k]
        /\ NodesOf(After(M), l) = NodesOf(Program, o)
        /\ Elements(After(M), l) = Elements(Program, o)
        /\ size(M.lists[l]) = size(lists[o])
        /\ M.lists[o].head = nullptr /\ size(M.lists[o]) = 0
        /\ M.lists[o].live
        /\ M.upstream_out = upstream_out

\* C18: move assignment target = move(source), both allocator handles naming
\* the same resource: the nodes the target held are deallocated (the resource
\* reports each block freed), the target takes over the source's nodes with
\* their sequence and size and without a new allocation, and the source is
\* left empty with size 0.
C18_MoveAssignSameResource ==
    \A l \in ListIds, o \in ListIds :
      /\ l # o /\ lists[l].live /\ lists[o].live
      /\ do_is_equal(lists[l].alloc, lists[o].alloc)
      =>
        LET M == move_assign(Entry(<<>>), l, o) IN
        /\ M.err = ""
        /\ Range(NodesOf(Program, l)) \subseteq Freed(M.log)
        /\ \A n \in Range(NodesOf(Program, l)) : ~ActiveSomewhere(After(M), n)
        /\ NodesOf(After(M), l) = NodesOf(Program, o)
        /\ Elements(After(M), l) = Elements(Program, o)
        /\ size(M.lists[l]) = size(lists[o])
        /\ \A k \in 1..Len(M.log) : M.log[k].fn # "allocate"
        /\ M.lists[o].head = nullptr /\ size(M.lists[o]) = 0

\* C19: move assignment target = move(source), the allocator handles naming
\* different resources: whatever the outcome, the source list (object, nodes,
\* elements) and the registry of the source's resource are left as they were
\* and every resource call goes to the target's resource; when the assignment
\* returns, the target holds the source's element sequence and size in nodes
\* of its own, all of them blocks handed out by the target's resource.
C19_MoveAssignOtherResource ==
    \A l \in ListIds, o \in ListIds :
      \A ups \in UpstreamAnswers(FreshCopy, lists[o].list_size) :
        /\ l # o /\ lists[l].live /\ lists[o].live
        /\ ~do_is_equal(lists[l].alloc, lists[o].alloc)
        =>
          LET M == move_assign(Entry(ups), l, o) IN
          /\ M.lists[o] = lists[o]
          /\ NodesOf(After(M), o) = NodesOf(Program, o)
          /\ Elements(After(M), o) = Elements(Program, o)
          /\ M.allocated_blocks[lists[o].alloc] = allocated_blocks[lists[o].alloc]
          /\ \A k \in 1..Len(M.log) : M.log[k].res = lists[l].alloc
          /\ M.lists[l].alloc = lists[l].alloc
          /\ M.err = "" =>
               /\ Elements(After(M), l) = Elements(Program, o)
               /\ size(M.lists[l]) = size(lists[o])
               /\ Range(NodesOf(After(M), l)) \cap Range(NodesOf(After(M), o)) = {}
               /\ \A n \in Range(NodesOf(After(M), l)) :
                    /\ M.allocated_blocks[lists[l].alloc][n].active
                    /\ \E k \in 1..Len(M.log) :
                         M.log[k].fn = "allocate" /\ M.log[k].ptr = n

\* A list of two different values on one resource is move-assigned to a
\* non-empty list on the other resource
C19_Witness ==
    \E l \in ListIds, o \in ListIds :
      \E ups \in UpstreamAnswers(FreshCopy, lists[o].list_size) :
        /\ l # o /\ lists[l].live /\ lists[o].live
        /\ ~do_is_equal(lists[l].alloc, lists[o].alloc)
        /\ size(lists[o]) = 2 /\ size(lists[l]) >= 1
        /\ Elements(Program, o)[1] # Elements(Program, o)[2]
        /\ LET M == move_assign(Entry(ups), l, o) IN
           /\ M.err = ""
           /\ Elements(After(M), l) = Elements(Program, o)
           /\ Elements(After(M), o) = Elements(Program, o)

\* Resource r's registry after the call keeps every block it had, with the size
\* and the alignment it had
KeepsBlocks(M, r) ==
    \A p \in Addr :
      allocated_blocks[r][p].tracked =>
        /\ M.allocated_blocks[r][p].tracked
        /\ M.allocated_blocks[r][p].size = allocated_blocks[r][p].size
        /\ M.allocated_blocks[r][p].alignment = allocated_blocks[r][p].alignment

\* C20: while a resource is alive, every address it obtained from the upstream
\* is in its registry with the size and the alignment of the request that
\* registered it; no allocate or deallocate call removes a block or changes its
\* size or alignment (a block reused for a smaller request keeps them), and a
\* deallocate call has the same effect whatever bytes and alignment it is given.
C20_BlocksKeepSizeAndAlignment ==
    \A r \in Clients :
      alive[r] =>
        /\ \A p \in Addr :
             /\ (obtained[r][p] > 0) = allocated_blocks[r][p].tracked
             /\ allocated_blocks[r][p].tracked =>
                  /\ allocated_blocks[r][p].size = original[r][p].size
                  /\ allocated_blocks[r][p].alignment = original[r][p].alignment
        /\ \A bytes \in Sizes, alignment \in Aligns :
             \A ups \in UpstreamAnswers(Fresh, 1) :
               LET M == do_allocate(Entry(ups), r, bytes, alignment) IN
               /\ KeepsBlocks(M, r)
               /\ M.original[r] = [p \in Addr |->
                                     IF allocated_blocks[r][p].tracked
                                     THEN original[r][p] ELSE M.original[r][p]]
        /\ \A ptr \in Addr, bytes \in Sizes, alignment \in Aligns :
             LET M == do_deallocate(Entry(<<>>), r, ptr, bytes, alignment) IN
             /\ KeepsBlocks(M, r)
             /\ \A p \in Addr \ {ptr} :
                  M.allocated_blocks[r][p] = allocated_blocks[r][p]
             /\ \A b \in Sizes, a \in Aligns :
                  After(do_deallocate(Entry(<<>>), r, ptr, b, a)) = After(M)

\* A free block registered with the largest size and alignment serves the
\* smallest request and keeps its size and alignment, and a block handed out is
\* deallocated with a size and an alignment other than its own
C20_Witness ==
    \E r \in Clients, p \in Addr :
      /\ alive[r]
      /\ allocated_blocks[r][p].tracked /\ ~allocated_blocks[r][p].active
      /\ allocated_blocks[r][p].size = MaxBytes
      /\ allocated_blocks[r][p].alignment = Pow2(MaxAlignExp)
      /\ LET M == do_allocate(Entry(<<>>), r, 1, 1)
             D == do_deallocate(Then(M, <<>>), r, p, 1, 1)
         IN
         /\ M.err = "" /\ M.ret = p /\ M.log[1].msg = "Reused block"
         /\ M.allocated_blocks[r][p].size = MaxBytes
         /\ M.allocated_blocks[r][p].active
         /\ D.err = "" /\ D.log[1].msg = "Deallocated block"
         /\ D.allocated_blocks[r][p].size = MaxBytes
         /\ D.allocated_blocks[r][p].alignment = Pow2(MaxAlignExp)

\* C21: in every reachable state every node reachable from a list's head is a
\* block tracked and active in the resource the list's allocator handle names,
\* and every node a list releases is freed in the resource it was allocated
\* from (pop_front leaves the old head's block handed out by no resource).
C21_NodesInOwnResource ==
    \A l \in ListIds :
      lists[l].live =>
        /\ \A n \in Range(NodesOf(Program, l)) :
             /\ allocated_blocks[lists[l].alloc][n].tracked
             /\ allocated_blocks[lists[l].alloc][n].active
        /\ lists[l].head # nullptr =>
             LET M == pop_front(Entry(<<>>), l) IN
             M.err = "" /\ ~ActiveSomewhere(After(M), lists[l].head)

\* C22: in every reachable state the chain from each list's head ends in a null
\* link without visiting a node twice, and no node is on the chains of two
\* lists.
C22_NoCycleNoSharing ==
    /\ \A l \in Slots :
         LET chain == NodesOf(Program, l) IN
         /\ Len(chain) <= MaxAddr
         /\ Cardinality(Range(chain)) = Len(chain)
         /\ chain # <<>> => node[chain[Len(chain)]].next = nullptr
    /\ \A l \in Slots, o \in Slots :
         l # o => Range(NodesOf(Program, l)) \cap Range(NodesOf(Program, o)) = {}

\* Two non-empty lists on one resource, the source of two nodes: a move
\* assignment hands the source's chain to the target and empties the source
C22_Witness ==
    \E l \in ListIds, o \in ListIds :
      /\ l # o /\ lists[l].live /\ lists[o].live
      /\ size(lists[l]) >= 1 /\ size(lists[o]) = 2
      /\ do_is_equal(lists[l].alloc, lists[o].alloc)
      /\ LET M == move_assign(Entry(<<>>), l, o) IN
         /\ M.err = ""
         /\ NodesOf(After(M), l) = NodesOf(Program, o)
         /\ NodesOf(After(M), o) = <<>>

\* The list objects, their elements and their sizes are what they are now
ListsAsBefore(M) ==
    \A l \in ListIds :
      /\ M.lists[l] = lists[l]
      /\ NodesOf(After(M), l) = NodesOf(Program, l)
      /\ Elements(After(M), l) = Elements(Program, l)

\* An upstream failure during push_front, insert_after, copy construction or a
\* copy assignment between lists on different resources reaches the caller as
\* bad_alloc and leaves every list with the object, nodes and elements it had.
C23_FailsBeforeMutating ==
    /\ \A l \in ListIds, v \in Values :
         \A ups \in UpstreamAnswers(Fresh, 1) :
           lists[l].live =>
             /\ LET M == push_front(Entry(ups), l, v) IN
                M.err # "" => M.err = "bad_alloc" /\ ListsAsBefore(M)
             /\ \A pos \in Cursors(l) :
                  LET M == insert_after(Entry(ups), l, pos.current, v) IN
                  M.err # "" => M.err = "bad_alloc" /\ ListsAsBefore(M)
    /\ \A l \in ListIds, o \in ListIds :
         \A ups \in UpstreamAnswers(Fresh, lists[o].list_size) :
           /\ ~lists[l].live /\ lists[o].live =>
                LET M == copy_construct(Entry(ups), l, o) IN
                M.err # "" => M.err = "bad_alloc" /\ ListsAsBefore(M)
           /\ /\ lists[l].live /\ lists[o].live
              /\ ~do_is_equal(lists[l].alloc, lists[o].alloc)
              => LET M == copy_assign(Entry(ups), l, o) IN
                 M.err # "" => M.err = "bad_alloc" /\ ListsAsBefore(M)

\* C23: when the upstream allocator fails during push_front, insert_after, copy
\* construction, copy assignment or move assignment, the failure is propagated
\* (the call throws bad_alloc) and the target list's element sequence and size
\* are the same as before the call.
C23_AllOrNothing ==
    /\ C23_FailsBeforeMutating
    /\ \A l \in ListIds, o \in ListIds :
         \A ups \in UpstreamAnswers(Fresh, lists[o].list_size) :
           lists[l].live /\ lists[o].live =>
             /\ LET M == copy_assign(Entry(ups), l, o) IN
                M.err # "" =>
                  /\ M.err = "bad_alloc"
                  /\ Elements(After(M), l) = Elements(Program, l)
                  /\ size(M.lists[l]) = size(lists[l])
             /\ LET M == move_assign(Entry(ups), l, o) IN
                M.err # "" =>
                  /\ M.err = "bad_alloc"
                  /\ Elements(After(M), l) = Elements(Program, l)
                  /\ size(M.lists[l]) = size(lists[l])

\* C24: the upstream handing out only addresses that are not outstanding, an
\* allocate that returns gives an address whose block was not active and is
\* active from then on; a block stays active through every other allocate and
\* through every deallocate but the successful deallocate of its own address,
\* so no allocate returns it in between.
C24_NeverReturnsActiveBlock ==
    \A r \in Clients :
      alive[r] =>
        /\ \A bytes \in Sizes, alignment \in Aligns :
             \A ups \in UpstreamAnswers(Fresh, 1) :
               LET M == do_allocate(Entry(ups), r, bytes, alignment) IN
               /\ M.err = "" =>
                    /\ M.ret # nullptr
                    /\ ~allocated_blocks[r][M.ret].active
                    /\ M.allocated_blocks[r][M.ret].active
               /\ \A p \in Addr :
                    allocated_blocks[r][p].active =>
                      M.allocated_blocks[r][p].active /\ M.ret # p
        /\ \A ptr \in Addr, bytes \in Sizes, alignment \in Aligns :
             LET M == do_deallocate(Entry(<<>>), r, ptr, bytes, alignment) IN
             \A p \in Addr :
               allocated_blocks[r][p].active /\ ~M.allocated_blocks[r][p].active
                 => p = ptr /\ M.err = "" /\ M.log[1].msg = "Deallocated block"

\* A resource with a block handed out and a free block, both large enough for
\* the request: allocate returns the free one
C24_Witness ==
    \E r \in Clients, x \in Addr, y \in Addr :
      /\ alive[r] /\ x < y
      /\ allocated_blocks[r][x].tracked /\ allocated_blocks[r][x].active
      /\ allocated_blocks[r][y].tracked /\ ~allocated_blocks[r][y].active
      /\ allocated_blocks[r][x].size = MaxBytes
      /\ allocated_blocks[r][x].alignment = Pow2(MaxAlignExp)
      /\ LET M == do_allocate(Entry(<<>>), r, 1, 1) IN
         M.err = "" /\ M.ret = y /\ M.log[1].msg = "Reused block"

\* The nodes the lists hold between them
NodesHeld == Len(NodesOf(Program, "A")) + Len(NodesOf(Program, "B"))

\* C25: every list being bound to the one resource, in every reachable state
\* the number of active blocks (used_blocks) is the number of nodes the lists
\* hold, and the number of tracked blocks (allocation_count) grows only when a
\* node is made while every tracked block is active: a new block is requested
\* upstream only when no free block exists.
C25_ActiveBlocksAreNodes ==
    \A r \in Clients :
      /\ used_blocks(allocated_blocks[r]) = NodesHeld
      /\ allocation_count(allocated_blocks[r]) >= NodesHeld
      /\ \A l \in ListIds, v \in Values :
           \A ups \in UpstreamAnswers(FreshCopy, 1) :
             lists[l].live =>
               LET M == push_front(Entry(ups), l, v) IN
               allocation_count(M.allocated_blocks[r]) > allocation_count(allocated_blocks[r])
                 => /\ used_blocks(allocated_blocks[r]) = allocation_count(allocated_blocks[r])
                    /\ allocation_count(M.allocated_blocks[r]) = NodesHeld + 1

====
